---- MODULE Spec2Model ----
(***************************************************************************)
(* DataGenerator.generateProducts (src/src/data-generator.ts): the brief  *)
(* based fast path, the sequential fallback, and the image stage with its *)
(* file-system image cache.  One generateProducts call is followed from   *)
(* its entry to the settling of its promise; the provider replies (text   *)
(* and image model) are the inputs, drawn from small sets.  Every action  *)
(* is one turn of the event loop: the reply of one awaited call together  *)
(* with all synchronous code that runs before the next await.             *)
(***************************************************************************)
EXTENDS Integers, Sequences, FiniteSets, TLC

VARIABLES
    productCount,    \* argument productCount of generateProducts
    generateImages,  \* argument generateImages of generateProducts
    pc,              \* where generateProducts is suspended, or how it settled
    briefs,          \* what generateProductBriefs gave back to generateProducts
    calls,           \* every generateProduct call issued so far, with its outcome
    fallback,        \* TRUE once control entered the fallback block (line 107)
    i,               \* loop counter of the fallback loop
    products,        \* local variable products of generateProducts
    imgTasks,        \* one entry per generateProductImage call of the fan-out
    wlog,            \* image tasks in the order they reached the cache write step
    cache,           \* the image cache directory: key -> bytes of <key>.png
    error,           \* rejection reason of generateProducts
    additionalInformation,  \* argument additionalInformation of generateProducts
    enriched,        \* const enrichedAdditionalInformation (line 76)
    browser,         \* the puppeteer browser of fetchRenderedHtml
    fetches,         \* the page fetches started so far, in order
    html,            \* what fetchRenderedHtml holds while its finally block runs
    fnIn,            \* arguments and provider reply of one call of a generator method
    fnOut,           \* what that call settled with
    apiClient,       \* DataHydrator.apiClient: its baseURL and Authorization header
    apiClientAccessToken,  \* DataHydrator.apiClientAccessToken
    lastAuth,        \* how the authentication attempt that ended last ended
    reqs,            \* the POST /generate requests: parameters and handler position
    sent,            \* per request, the upload requests its handler sent, in order
    store            \* per environment, the categories of the requested name

pipeVars == <<productCount, generateImages, pc, briefs, calls, fallback, i,
              products, imgTasks, wlog, cache, error>>

enrichVars == <<additionalInformation, enriched, browser, fetches, html>>

fnVars == <<fnIn, fnOut>>

srvVars == <<apiClient, apiClientAccessToken, lastAuth, reqs, sent, store>>

vars == <<pipeVars, enrichVars, fnVars, srvVars>>

----------------------------------------------------------------------------
(* Bounds of the model *)

MaxCount == 2
MaxBriefs == 2

----------------------------------------------------------------------------
(* Values *)

\* Product names the text model may answer with, as character sequences.
\* The empty name is a valid z.string(); "a" and "a1" share one cache key.
Names == { <<>>, <<"a">>, <<"a", "1">> }

Letters == { "a", "b", "c", "d", "e", "f", "g", "h", "i", "j", "k", "l", "m",
             "n", "o", "p", "q", "r", "s", "t", "u", "v", "w", "x", "y", "z",
             "A", "B", "C", "D", "E", "F", "G", "H", "I", "J", "K", "L", "M",
             "N", "O", "P", "Q", "R", "S", "T", "U", "V", "W", "X", "Y", "Z" }

IsLetter(c) == c \in Letters

\* name.replace(/[^a-zA-Z]/g, "")
Sanitize(s) == SelectSeq(s, IsLetter)

Keys == { Sanitize(n) : n \in Names }

\* File contents (decoded image bytes); NoFile stands for "no such file".
Bytes == { "p", "q" }
NoFile == "-"

\* base64 strings: the image model's b64_json.  Two different strings may
\* decode to the same bytes (padding, line breaks); the encoder always
\* produces the canonical one.  NoData is the empty string.
NoData == [bytes |-> NoFile, canon |-> TRUE]
Payloads == { [bytes |-> "p", canon |-> FALSE],
              [bytes |-> "q", canon |-> TRUE] }

\* fs.writeFileSync(path, data, "base64") stores the decoded bytes
Base64Decode(data) == data.bytes
\* fs.readFileSync(path, {encoding: "base64"})
Base64Encode(b) == [bytes |-> b, canon |-> TRUE]

NoImage == [has |-> FALSE, name |-> <<>>, data |-> NoData]
Image(key, data) == [has |-> TRUE, name |-> key, data |-> data]

\* A parsed product record, and JavaScript's undefined
Product(n) == [def |-> TRUE, name |-> n, image |-> NoImage]
Undefined == [def |-> FALSE, name |-> <<>>, image |-> NoImage]

\* Replies of the text model to one chat.completions.create call
TextReplies ==
    { [kind |-> "error", name |-> <<>>],      \* the call rejects
      [kind |-> "empty", name |-> <<>>],      \* no message content
      [kind |-> "garbage", name |-> <<>>] }   \* content JSON.parse rejects
    \cup { [kind |-> "json", name |-> n] : n \in Names }

\* Replies of the text model to the briefs call: n is the number of briefs
BriefReplies ==
    { [kind |-> k, n |-> 0] : k \in {"error", "empty", "garbage"} }
    \cup { [kind |-> "json", n |-> n] : n \in 0..MaxBriefs }

\* Replies of the image model to one images.generate call
ImageReplies ==
    { [kind |-> "error", data |-> NoData],    \* the call rejects
      [kind |-> "nodata", data |-> NoData] }  \* data[0] or b64_json missing
    \cup { [kind |-> "image", data |-> d] : d \in Payloads }

\* Free-text contexts as word sequences; "u1" and "u2" stand for words of
\* the shape http://..., "txt" for any other word.  The default is "".
Urls == { "u1", "u2" }
Contexts == { <<>>, <<"txt">>, <<"txt", "u1">>, <<"u2", "txt", "u1">> }
NoUrl == "null"

\* Extracted page text, by its length; truncated tells the marker is there
Text(n, t) == [len |-> n, truncated |-> t]
NoText == Text(0, FALSE)

\* A context string: the caller's text, followed by the crawled-content
\* section when there is one (url # NoUrl)
Unenriched(raw) == [base |-> raw, url |-> NoUrl, text |-> NoText]
Injected(raw, url, clipped) == [base |-> raw, url |-> url, text |-> clipped]
\* enrichedAdditionalInformation before line 76 assigned it
NoCtx == [base |-> <<>>, url |-> "unset", text |-> NoText]

\* clipText's default and the argument of line 284
MaxChars == 3000

\* Replies to a page read (page.content() or axios.get): len is the length
\* of the readable text of the page
PageReplies ==
    { [kind |-> "error", len |-> 0],          \* the call rejects
      [kind |-> "unparsable", len |-> 0] }    \* a body loadHtml rejects
    \cup { [kind |-> "html", len |-> n] : n \in {0, MaxChars, MaxChars + 1} }
NoPage == [kind |-> "none", len |-> 0]

\* The DataHydrator as its constructor leaves it (main.ts lines 46-48), and
\* no request
NoClient == [env |-> "none", auth |-> 0]
NoServer ==
    /\ apiClient = NoClient
    /\ apiClientAccessToken = 0
    /\ lastAuth = "none"
    /\ reqs = <<>>
    /\ sent = <<>>
    /\ store = <<>>

\* No generator method is followed on its own
NoInput == [fn |-> "none"]
NoOutput == [kind |-> "none"]

Return(v) == [kind |-> "return", value |-> v]
Throw == [kind |-> "throw", value |-> Undefined]

----------------------------------------------------------------------------
(* enrichAdditionalInformation and its helpers *)

RECURSIVE ExtractLastUrl(_)
\* The match taken from the end of the text instead
ExtractLastUrl(text) ==
    IF text = <<>> THEN NoUrl
    ELSE IF text[Len(text)] \in Urls THEN text[Len(text)]
    ELSE ExtractLastUrl(SubSeq(text, 1, Len(text) - 1))

RECURSIVE ExtractFirstUrl(_)
\* lines 215-219: text.match(/https?:\/\/[^\s]+/i)
ExtractFirstUrl(text) ==
    IF text = <<>> THEN NoUrl
    ELSE IF Head(text) \in Urls THEN Head(text)
    ELSE ExtractFirstUrl(Tail(text))

\* lines 251-263: the readable text of a parsed page
ExtractReadableTextFromHtml(page) == Text(page.len, FALSE)

\* lines 265-268
ClipText(input, maxChars) ==
    IF input.len <= maxChars THEN input ELSE Text(maxChars, TRUE)

\* The awaits of fetchRenderedHtml before its finally block, lines 233-244
RenderSteps == <<"launch", "newPage", "setUserAgent", "goto", "waitForTimeout", "content">>
StepIndex(st) == CHOOSE k \in 1..Len(RenderSteps) : RenderSteps[k] = st
Rendering == pc \in { RenderSteps[k] : k \in 1..Len(RenderSteps) }

\* A started page fetch and how it ended: still "pending", "failed" (the
\* fetch threw), "unparsable" (it returned a body loadHtml rejects) or "ok"
Fetch(kind, url) == [kind |-> kind, url |-> url, res |-> "pending"]
EndFetch(fs, res) == [fs EXCEPT ![Len(fs)].res = res]
FetchResult(page) ==
    IF page.kind = "error" THEN "failed"
    ELSE IF page.kind = "html" THEN "ok" ELSE "unparsable"

\* lines 283-290 without the catch of line 287
EnrichedFromUnchecked(raw, url, page) ==
    Injected(raw, url, ClipText(ExtractReadableTextFromHtml(page), MaxChars))

\* lines 283-290: from the fetched page to the value enrichment returns
EnrichedFrom(raw, url, page) ==
    IF page.kind = "html"
    THEN Injected(raw, url, ClipText(ExtractReadableTextFromHtml(page), MaxChars))
    ELSE Unenriched(raw)

----------------------------------------------------------------------------
(* generateProduct and generateProductBriefs: from reply to outcome *)

\* generateProduct, lines 200-213: the provider call is awaited outside the
\* try block; only JSON.parse is guarded.
GenerateProduct(reply) ==
    IF reply.kind = "error" THEN Throw
    ELSE IF reply.kind = "json" THEN Return(Product(reply.name))
    ELSE Return(Undefined)

\* generateProductBriefs, lines 310-328: number of briefs returned
GenerateProductBriefs(reply) ==
    IF reply.kind = "error" THEN [kind |-> "throw", n |-> 0]
    ELSE IF reply.kind = "json" THEN [kind |-> "return", n |-> reply.n]
    ELSE [kind |-> "return", n |-> 0]

\* An issued generateProduct call: brief > 0 on the fast path (the index of
\* the brief it is seeded with), brief = 0 on the fallback path.
\* ctx is the additionalInformation argument (lines 95 and 116).
\* Here the caller's raw context is passed instead of the enriched one.
CallRawContext(b, prior) ==
    [brief |-> b, prior |-> prior, st |-> "pending", name |-> <<>>,
     ctx |-> Unenriched(additionalInformation)]

\* Here a call without a brief of its own is seeded with the first brief
CallSeeded(b, prior) ==
    [brief |-> IF b = 0 THEN 1 ELSE b, prior |-> prior, st |-> "pending",
     name |-> <<>>, ctx |-> enriched]

Call(b, prior) ==
    [brief |-> b, prior |-> prior, st |-> "pending", name |-> <<>>, ctx |-> enriched]

\* lines 184-198: the diversification clauses generateProduct adds to the
\* prompt of a call
PromptClauses(c) ==
    (IF Len(c.prior) > 0 THEN {"previous"} ELSE {})
    \cup (IF c.brief # 0 THEN {"brief"} ELSE {})

Settle(c, r) ==
    IF r.kind = "throw" THEN [c EXCEPT !.st = "thrown"]
    ELSE IF r.value.def THEN [c EXCEPT !.st = "product", !.name = r.value.name]
    ELSE [c EXCEPT !.st = "absent"]

\* Promise.all has rejected: whatever the other calls of the fan-out have
\* settled or will settle with is dropped, and nothing reads it any more.
Abandon(c) == IF c.st = "thrown" THEN c ELSE [c EXCEPT !.st = "abandoned", !.name = <<>>]

\* The value a settled call resolved with
Resolved(c) == IF c.st = "product" THEN Product(c.name) ELSE Undefined

Truthy(n) == n # <<>>

RECURSIVE NamesOf(_)
NamesOf(ps) == IF ps = <<>> THEN <<>> ELSE <<Head(ps).name>> \o NamesOf(Tail(ps))

\* line 110 without the .filter(Boolean)
PreviousProductNamesUnfiltered(ps) == NamesOf(ps)

\* line 110: products.map((p) => p.name).filter(Boolean)
PreviousProductNames(ps) == SelectSeq(NamesOf(ps), Truthy)

----------------------------------------------------------------------------
(* generateProductImage *)

\* lines 344-345: the cache file of a product
ImageKey(p) == Sanitize(p.name)

\* Category arguments: "sd" and "s d" name different categories
Categories == { <<"s", "d">>, <<"s", " ", "d">> }

\* line 411: the directory of a category below imageDir
CreateCategoryImageDir(category) == Sanitize(category)

\* line 345: path.join(categoryImageDir, `${imageName}.png`)
ImageFsPath(category, p) == <<CreateCategoryImageDir(category), ImageKey(p)>>

\* line 347 and line 391: fs.existsSync(imageFsPath)
Exists(c, key) == c[key] # NoFile

\* line 387 without the early return
ObtainedAlways(data) == TRUE

\* line 387: if (!imageBase64.length) return product
Obtained(data) == data # NoData

\* line 391 without the existsSync guard
ShouldWriteAlways(c, key) == TRUE

\* line 391: the write is attempted only if the file is not there
ShouldWrite(c, key) == ~Exists(c, key)

\* ctx is the additionalInformation argument (lines 132 and 336)
ImgTask(st, called) ==
    [st |-> st, called |-> called, reply |-> "none", wres |-> "none", ctx |-> enriched]

\* lines 347-359 skipped: the image is generated again on every call
StartTaskNoCache(p) ==
    IF ~p.def THEN ImgTask("typeerror", FALSE) ELSE ImgTask("pending", TRUE)

\* generateProductImages, lines 334-337, with the synchronous head of each
\* generateProductImage call (lines 342-359 and 373): an undefined product
\* throws on product.name, a cache hit returns at once, a miss issues the
\* image call.
StartTask(p) ==
    IF ~p.def THEN ImgTask("typeerror", FALSE)
    ELSE IF Exists(cache, ImageKey(p)) THEN ImgTask("hit", FALSE)
    ELSE ImgTask("pending", TRUE)

\* lines 348-354: the product as the head of generateProductImage leaves it
StartProduct(p) ==
    IF p.def /\ Exists(cache, ImageKey(p))
    THEN [p EXCEPT !.image = Image(ImageKey(p), Base64Encode(cache[ImageKey(p)]))]
    ELSE p

----------------------------------------------------------------------------
(* generateProducts: the synchronous continuations *)

Ctl(p, fb, ii, ps, cs, its, er) ==
    [pc |-> p, fallback |-> fb, i |-> ii, products |-> ps, calls |-> cs,
     imgTasks |-> its, error |-> er]

Apply(c) ==
    /\ pc' = c.pc
    /\ fallback' = c.fallback
    /\ i' = c.i
    /\ products' = c.products
    /\ calls' = c.calls
    /\ imgTasks' = c.imgTasks
    /\ error' = c.error

\* lines 128-134 without the test of generateImages at line 127
ImageStageAlways(ps, cs, fb, ii) ==
    LET its == [k \in 1..Len(ps) |-> StartTask(ps[k])]
        ps2 == [k \in 1..Len(ps) |-> StartProduct(ps[k])]
    IN  IF \E k \in 1..Len(ps) : its[k].st = "typeerror"
        THEN Ctl("rejected", fb, ii, ps2, cs, its, "TypeError")
        ELSE IF \E k \in 1..Len(ps) : its[k].st = "pending"
        THEN Ctl("images", fb, ii, ps2, cs, its, "none")
        ELSE Ctl("done", fb, ii, ps2, cs, its, "none")

\* lines 126-134
ImageStage(ps, cs, fb, ii) ==
    IF ~generateImages THEN Ctl("done", fb, ii, ps, cs, <<>>, "none")
    ELSE LET its == [k \in 1..Len(ps) |-> StartTask(ps[k])]
             ps2 == [k \in 1..Len(ps) |-> StartProduct(ps[k])]
         IN  IF \E k \in 1..Len(ps) : its[k].st = "typeerror"
             THEN Ctl("rejected", fb, ii, ps2, cs, its, "TypeError")
             ELSE IF \E k \in 1..Len(ps) : its[k].st = "pending"
             THEN Ctl("images", fb, ii, ps2, cs, its, "none")
             ELSE Ctl("done", fb, ii, ps2, cs, its, "none")

\* lines 109-123 with the loop run until productCount products are there
FallbackLoopUntilFull(ps, cs, ii) ==
    IF Len(ps) < productCount
    THEN Ctl("seq", TRUE, ii, ps, Append(cs, Call(0, PreviousProductNames(ps))), <<>>, "none")
    ELSE ImageStage(ps, cs, TRUE, ii)

\* lines 109-123: the head of the loop with counter ii
FallbackLoop(ps, cs, ii) ==
    IF ii < productCount
    THEN Ctl("seq", TRUE, ii, ps, Append(cs, Call(0, PreviousProductNames(ps))), <<>>, "none")
    ELSE ImageStage(ps, cs, TRUE, ii)

\* line 107
AfterFastPath(ps, cs) ==
    IF Len(ps) = 0 THEN FallbackLoop(<<>>, cs, 0) ELSE ImageStage(ps, cs, FALSE, 0)

----------------------------------------------------------------------------
(* Actions *)

InitCall ==
    /\ productCount \in 0..MaxCount
    /\ generateImages \in BOOLEAN
    /\ pc = "enrich"
    /\ briefs = [kind |-> "pending", n |-> 0, ctx |-> NoCtx]
    /\ calls = <<>>
    /\ fallback = FALSE
    /\ i = 0
    /\ products = <<>>
    /\ imgTasks = <<>>
    /\ wlog = <<>>
    /\ cache \in [Keys -> {"p", NoFile}]
    /\ error = "none"
    /\ enriched = NoCtx
    /\ browser = "none"
    /\ fetches = <<>>
    /\ html = NoPage
    /\ fnIn = NoInput
    /\ fnOut = NoOutput
    /\ NoServer

\* generateProducts called with the default additionalInformation = "",
\* as the CLI and the Express server call it
Init ==
    /\ InitCall
    /\ additionalInformation = <<>>

\* lines 76-85: enrichAdditionalInformation returns e and the briefs call
\* is issued with it
ReturnEnriched(e) ==
    /\ enriched' = e
    /\ pc' = "briefs"
    /\ briefs' = [kind |-> "pending", n |-> 0, ctx |-> e]

\* lines 278-282: the rendered fetch threw; the catch starts the plain GET
StartStatic(url) ==
    /\ pc' = "static"
    /\ fetches' = Append(EndFetch(fetches, "failed"), Fetch("static", url))
    /\ UNCHANGED <<briefs, enriched>>

\* lines 237-248 without the finally block: the error leaves at once
FailInTryNoFinally(url) ==
    /\ StartStatic(url)
    /\ html' = html

\* lines 237-248: an await inside the try block rejects; the error is held
\* while the finally block closes the browser
FailInTry(url) ==
    /\ pc' = "close"
    /\ html' = [kind |-> "error", len |-> 0]
    /\ UNCHANGED <<fetches, briefs, enriched>>

\* lines 76 and 270-279, 233: generateProducts enters enrichment; without a
\* URL it returns at once, with one it starts fetchRenderedHtml.
Enrich ==
    /\ pc = "enrich"
    /\ LET url == ExtractFirstUrl(additionalInformation)
       IN  IF url = NoUrl
           THEN /\ ReturnEnriched(Unenriched(additionalInformation))
                /\ UNCHANGED fetches
           ELSE /\ pc' = "launch"
                /\ fetches' = Append(fetches, Fetch("rendered", url))
                /\ UNCHANGED <<briefs, enriched>>
    /\ UNCHANGED <<productCount, generateImages, calls, fallback, i,
                   products, imgTasks, wlog, cache, error>>
    /\ UNCHANGED <<additionalInformation, browser, html>>
    /\ UNCHANGED <<fnVars, srvVars>>

\* lines 233-244: one await of fetchRenderedHtml settles.  A failed launch
\* throws before the try block; any later failure, and the page content,
\* pass through the finally block.
RenderStep(ok, page) ==
    /\ Rendering
    /\ LET url == ExtractFirstUrl(additionalInformation)
           k == StepIndex(pc)
       IN  IF pc = "launch"
           THEN IF ok
                THEN /\ browser' = "open"
                     /\ pc' = RenderSteps[k + 1]
                     /\ UNCHANGED <<fetches, html, briefs, enriched>>
                ELSE /\ StartStatic(url)
                     /\ UNCHANGED <<browser, html>>
           ELSE /\ browser' = browser
                /\ IF ~ok
                   THEN FailInTry(url)
                   ELSE /\ UNCHANGED <<fetches, briefs, enriched>>
                        /\ IF pc = "content"
                           THEN pc' = "close" /\ html' = page
                           ELSE pc' = RenderSteps[k + 1] /\ html' = html
    /\ UNCHANGED <<productCount, generateImages, calls, fallback, i,
                   products, imgTasks, wlog, cache, error>>
    /\ UNCHANGED additionalInformation
    /\ UNCHANGED <<fnVars, srvVars>>

\* lines 246-248 and 280-290: browser.close() settles.  The held error, or
\* the error of close itself, is thrown on to the catch of line 280; the
\* held content is returned to line 283.
Close(ok) ==
    /\ pc = "close"
    /\ browser' = "closed"
    /\ html' = NoPage
    /\ LET url == ExtractFirstUrl(additionalInformation)
       IN  IF ok /\ html.kind # "error"
           THEN /\ ReturnEnriched(EnrichedFrom(additionalInformation, url, html))
                /\ fetches' = EndFetch(fetches, FetchResult(html))
           ELSE StartStatic(url)
    /\ UNCHANGED <<productCount, generateImages, calls, fallback, i,
                   products, imgTasks, wlog, cache, error>>
    /\ UNCHANGED additionalInformation
    /\ UNCHANGED <<fnVars, srvVars>>

\* lines 281-290 and 221-230: the plain axios.get settles
StaticReply(page) ==
    /\ pc = "static"
    /\ ReturnEnriched(EnrichedFrom(additionalInformation,
                                   ExtractFirstUrl(additionalInformation), page))
    /\ fetches' = EndFetch(fetches, FetchResult(page))
    /\ UNCHANGED <<productCount, generateImages, calls, fallback, i,
                   products, imgTasks, wlog, cache, error>>
    /\ UNCHANGED <<additionalInformation, browser, html>>
    /\ UNCHANGED <<fnVars, srvVars>>

\* lines 81-104: the briefs call settles
BriefsReply(reply) ==
    /\ pc = "briefs"
    /\ LET r == GenerateProductBriefs(reply)
       IN  /\ briefs' = [kind |-> r.kind, n |-> r.n, ctx |-> briefs.ctx]
           /\ IF r.kind = "return" /\ r.n > 0
              THEN /\ calls' = [k \in 1..r.n |-> Call(k, <<>>)]
                   /\ pc' = "fast"
                   /\ UNCHANGED <<fallback, i, products, imgTasks, error>>
              ELSE Apply(AfterFastPath(<<>>, calls))
    /\ UNCHANGED <<productCount, generateImages, wlog, cache>>
    /\ UNCHANGED enrichVars
    /\ UNCHANGED <<fnVars, srvVars>>

FastCalls(cs) == { k \in 1..Len(cs) : cs[k].brief > 0 }

\* lines 88-104: one brief-seeded generateProduct call settles.  Promise.all
\* rejects with the first rejection and resolves once every call resolved.
\* A reply that arrives after Promise.all rejected changes nothing the
\* program reads: those calls are marked abandoned at the rejection.
FastReply(k, reply) ==
    /\ pc = "fast"
    /\ k \in FastCalls(calls)
    /\ calls[k].st = "pending"
    /\ LET cs == [calls EXCEPT ![k] = Settle(calls[k], GenerateProduct(reply))]
       IN  IF cs[k].st = "thrown"
           THEN Apply(AfterFastPath(<<>>, [j \in 1..Len(cs) |-> Abandon(cs[j])]))
           ELSE IF \A j \in FastCalls(cs) : cs[j].st # "pending"
           THEN Apply(AfterFastPath([j \in 1..Len(cs) |-> Resolved(cs[j])], cs))
           ELSE /\ calls' = cs
                /\ UNCHANGED <<pc, fallback, i, products, imgTasks, error>>
    /\ UNCHANGED <<productCount, generateImages, briefs, wlog, cache>>
    /\ UNCHANGED enrichVars
    /\ UNCHANGED <<fnVars, srvVars>>

\* lines 111-123: the generateProduct call of the current iteration settles
SeqReply(reply) ==
    /\ pc = "seq"
    /\ LET r == GenerateProduct(reply)
           cs == [calls EXCEPT ![Len(calls)] = Settle(calls[Len(calls)], r)]
       IN  IF r.kind = "throw"
           THEN /\ pc' = "rejected"
                /\ error' = "ProviderError"
                /\ calls' = cs
                /\ UNCHANGED <<fallback, i, products, imgTasks>>
           ELSE Apply(FallbackLoop(IF r.value.def THEN Append(products, r.value)
                                                  ELSE products,
                                   cs, i + 1))
    /\ UNCHANGED <<productCount, generateImages, briefs, wlog, cache>>
    /\ UNCHANGED enrichVars
    /\ UNCHANGED <<fnVars, srvVars>>

\* lines 370-407: the image call of task k settles; fsOk tells whether
\* fs.writeFileSync succeeds when it is attempted (its error is caught).
ImageReply(k, reply, fsOk) ==
    /\ k \in 1..Len(imgTasks)
    /\ imgTasks[k].st = "pending"
    /\ LET key == ImageKey(products[k])
           imageBase64 == IF reply.kind = "image" THEN reply.data ELSE NoData
           write == ShouldWrite(cache, key)
           its == IF Obtained(imageBase64)
                  THEN [imgTasks EXCEPT ![k] =
                           [imgTasks[k] EXCEPT
                               !.st = "returned", !.reply = reply.kind,
                               !.wres = IF ~write THEN "skipped"
                                        ELSE IF fsOk THEN "written" ELSE "failed"]]
                  ELSE [imgTasks EXCEPT ![k] =
                           [imgTasks[k] EXCEPT !.st = "returned", !.reply = reply.kind]]
       IN  /\ imgTasks' = its
           /\ IF Obtained(imageBase64)
              THEN /\ cache' = IF write /\ fsOk
                               THEN [cache EXCEPT ![key] = Base64Decode(imageBase64)]
                               ELSE cache
                   /\ wlog' = Append(wlog, k)
                   /\ products' = [products EXCEPT ![k].image = Image(key, imageBase64)]
              ELSE UNCHANGED <<cache, wlog, products>>
           /\ pc' = IF pc = "images" /\ \A j \in 1..Len(its) : its[j].st # "pending"
                    THEN "done" ELSE pc
    /\ UNCHANGED <<productCount, generateImages, briefs, calls, fallback, i, error>>
    /\ UNCHANGED enrichVars
    /\ UNCHANGED <<fnVars, srvVars>>

Next ==
    \/ Enrich
    \/ \E reply \in BriefReplies : BriefsReply(reply)
    \/ \E k \in 1..MaxBriefs, reply \in TextReplies : FastReply(k, reply)
    \/ \E reply \in TextReplies : SeqReply(reply)
    \/ \E k \in 1..Len(imgTasks), reply \in ImageReplies, fsOk \in BOOLEAN :
           ImageReply(k, reply, fsOk)

Spec == Init /\ [][Next]_vars

\* generateProducts called with an additionalInformation argument (line 71)
InitEnrich ==
    /\ InitCall
    /\ additionalInformation \in Contexts

\* The provider replies followed after an enrichment: one of each outcome
\* (the call rejects, no usable content, a product or an image)
TextRepliesAfterEnrich ==
    { r \in TextReplies : r.kind \in {"error", "empty"} \/ r.name = <<"a">> }
ImageRepliesAfterEnrich ==
    { r \in ImageReplies : r.kind = "error" \/ r.data.canon }

NextEnrich ==
    \/ Enrich
    \/ \E reply \in BriefReplies : BriefsReply(reply)
    \/ \E k \in 1..MaxBriefs, reply \in TextRepliesAfterEnrich : FastReply(k, reply)
    \/ \E reply \in TextRepliesAfterEnrich : SeqReply(reply)
    \/ \E k \in 1..Len(imgTasks), reply \in ImageRepliesAfterEnrich :
           ImageReply(k, reply, TRUE)
    \/ \E ok \in BOOLEAN, page \in PageReplies : RenderStep(ok, page)
    \/ \E ok \in BOOLEAN : Close(ok)
    \/ \E page \in PageReplies : StaticReply(page)

SpecEnrich == InitEnrich /\ [][NextEnrich]_vars

\* Every awaited provider, browser and HTTP call settles: as long as a call
\* is pending, one of them eventually returns or fails
SpecLive == InitEnrich /\ [][NextEnrich]_vars /\ WF_vars(NextEnrich)

----------------------------------------------------------------------------
(* The generator methods as functions of their arguments and of the reply  *)
(* of their one provider call: generateProductBriefs, generatePropertyGroups *)
(* and generateProduct with the response schema it builds                   *)

RECURSIVE SeqsUpTo(_, _)
\* The sequences over S of length 0..n
SeqsUpTo(S, n) ==
    IF n = 0 THEN { <<>> }
    ELSE LET shorter == SeqsUpTo(S, n - 1)
         IN  shorter \cup { Append(q, x) : q \in { r \in shorter : Len(r) = n - 1 }, x \in S }

\* What a method call settles with: a returned sequence, a returned
\* undefined, or a rejection
FnReturn(v) == [kind |-> "return", def |-> TRUE, value |-> v]
FnUndefined == [kind |-> "return", def |-> FALSE, value |-> <<>>]
FnThrow == [kind |-> "throw", def |-> FALSE, value |-> <<>>]

\* Elements of the briefs array of a reply: whether the string fields are
\* there, and the number of differentiators
BriefValues ==
    [nameIdea : BOOLEAN, targetAudience : BOOLEAN, differentiators : {2, 3, 6, 7}]

\* lines 298-303: the Brief schema
ConformsToBrief(b) ==
    /\ b.nameIdea
    /\ b.targetAudience
    /\ b.differentiators >= 3 /\ b.differentiators <= 6

\* Replies to the chat call of generateProductBriefs, with their content
BriefContents ==
    { [kind |-> k, briefs |-> <<>>] : k \in {"error", "empty", "garbage"} }
    \cup { [kind |-> "json", briefs |-> bs] : bs \in SeqsUpTo(BriefValues, MaxBriefs) }

\* lines 310-328: the array generateProductBriefs returns
ReturnedBriefs(reply) ==
    IF reply.kind = "error" THEN FnThrow
    ELSE IF reply.kind = "json" THEN FnReturn(reply.briefs)
    ELSE FnReturn(<<>>)

\* Property groups as the sequences of their option ids
G0 == <<>>
G1 == << "o1" >>
G2 == << "o2", "o3" >>
OptionIdsOf(gs) == UNION { { g[k] : k \in 1..Len(g) } : g \in { gs[j] : j \in 1..Len(gs) } }

\* Replies to the chat call of generatePropertyGroups: has tells whether
\* the parsed object has the key propertyGroups
GroupReplies ==
    { [kind |-> k, has |-> FALSE, groups |-> <<>>] : k \in {"error", "empty", "garbage", "json"} }
    \cup { [kind |-> "json", has |-> TRUE, groups |-> gs] :
             gs \in { <<>>, <<G1>>, <<G1, G2>> } }

\* lines 42-61: the provider call is awaited outside the try block; a parse
\* error is logged and the function falls off its end
GeneratePropertyGroups(reply) ==
    IF reply.kind = "error" THEN FnThrow
    ELSE IF reply.kind = "empty" THEN FnReturn(<<>>)
    ELSE IF reply.kind = "garbage" THEN FnUndefined
    ELSE IF reply.has THEN FnReturn(reply.groups) ELSE FnUndefined

\* main.ts lines 213-226: propertyGroups.map(...) of the uploading caller
HydrateEnvWithPropertyGroups(out) ==
    IF out.kind = "return" /\ out.def THEN "uploaded" ELSE "TypeError"

\* The propertyGroups argument of generateProduct: null or a list of groups
NoGroups == [given |-> FALSE, groups |-> <<>>]
Groups(gs) == [given |-> TRUE, groups |-> gs]
PropertyGroupArgs ==
    { NoGroups }
    \cup { Groups(gs) : gs \in { <<>>, <<G0>>, <<G1>>, <<G1, G2>>, <<G2, G1>>, <<G1, G0, G2>> } }

\* lines 163-167 with the inner loop run for the first group only
OptionsOfFirstGroup(gs) == IF gs = <<>> THEN <<>> ELSE Head(gs)

RECURSIVE Options(_)

\* lines 161-167: the option ids of every group, flattened in order
Options(gs) == IF gs = <<>> THEN <<>> ELSE Head(gs) \o Options(Tail(gs))

\* lines 160-178 entered only for a non-empty list of groups
SchemaIfAnyGroup(propertyGroups, generateReviews) ==
    [reviews |-> generateReviews,
     options |-> propertyGroups.given /\ propertyGroups.groups # <<>>,
     enum |-> IF propertyGroups.given
              THEN { Options(propertyGroups.groups)[k] :
                       k \in 1..Len(Options(propertyGroups.groups)) }
              ELSE {}]

\* lines 146-178: the response schema.  reviews: productReviews is required
\* (an array of ProductReviewDefinition); options: required (an array of
\* objects whose id is in enum)
Schema(propertyGroups, generateReviews) ==
    [reviews |-> generateReviews,
     options |-> propertyGroups.given,
     enum |-> IF propertyGroups.given
              THEN { Options(propertyGroups.groups)[k] :
                       k \in 1..Len(Options(propertyGroups.groups)) }
              ELSE {}]

\* Product objects a reply may hold: the option ids ("ox" is in no group)
\* and the points of the reviews, where the fields are there
Absent == [has |-> FALSE, items |-> <<>>]
Present(items) == [has |-> TRUE, items |-> items]
ProductReplies ==
    [options : { Absent } \cup { Present(q) : q \in SeqsUpTo({"o1", "o2", "o3", "ox"}, 2) },
     reviews : { Absent } \cup { Present(q) : q \in SeqsUpTo({1, 6}, 5) }]

\* The reply is an instance of the schema sent as response_format
\* (lines 152-178 and server.ts lines 118-125)
Conforms(schema, reply) ==
    /\ reply.reviews.has = schema.reviews
    /\ \A k \in 1..Len(reply.reviews.items) : reply.reviews.items[k] \in Int
    /\ reply.options.has = schema.options
    /\ \A k \in 1..Len(reply.options.items) : reply.options.items[k] \in schema.enum

\* Arguments and reply of one method call
BriefsInputs == { [fn |-> "generateProductBriefs", reply |-> r] : r \in BriefContents }
GroupsInputs == { [fn |-> "generatePropertyGroups", reply |-> r] : r \in GroupReplies }
ProductInputs ==
    { [fn |-> "generateProduct", propertyGroups |-> gs, generateReviews |-> gr, reply |-> r] :
        gs \in PropertyGroupArgs, gr \in BOOLEAN, r \in ProductReplies }

\* Environment variables of the CLI: "" stands for an unset one
EnvValues(v) == { "", v }
CliEnvs ==
    [OPENAI_API_KEY : EnvValues("key"), SW_ENV_URL : EnvValues("http://shop"),
     SW_CLIENT_ID : EnvValues("id"), SW_CLIENT_SECRET : EnvValues("secret")]
CliInputs == { [fn |-> "main", env |-> e] : e \in CliEnvs }

LocalDevUrl == "http://localhost:8000"

\* main.ts lines 65-90: the token request of authenticateWithClientCredentials
AuthRequest(envPath, clientId, clientSecret) ==
    [baseURL |-> IF envPath = "" THEN LocalDevUrl ELSE envPath,
     grant_type |-> IF clientId # "" /\ clientSecret # ""
                    THEN "client_credentials" ELSE "password",
     user |-> IF clientId # "" /\ clientSecret # ""
              THEN <<clientId, clientSecret>> ELSE <<"admin", "shopware">>]

\* main.ts lines 4-24: the CLI from its start to its first request
Main(env) ==
    IF env.OPENAI_API_KEY = ""
    THEN [kind |-> "throw", error |-> "OPENAI_API_KEY is missing!"]
    ELSE IF env.SW_ENV_URL = ""
    THEN [kind |-> "throw", error |-> "SW_ENV_URL is missing!"]
    ELSE [kind |-> "authenticate",
          request |-> AuthRequest(env.SW_ENV_URL, env.SW_CLIENT_ID, env.SW_CLIENT_SECRET)]

\* What a front end does with the list generateProducts resolved with: n is
\* its length; ready tells whether the upload function finds what it needs
\* (the access token, or the currency, tax, sales channel and category ids).
\* sync: the product upsert request is sent; outcome: what the caller of
\* the front end is told ("success" for the CLI: the process ends normally)
FrontEnds == { "cli", "express", "hono" }
FrontEndInputs ==
    { [fn |-> "frontEnd", fe |-> fe, n |-> n, ready |-> rd] :
        fe \in FrontEnds, n \in 0..2, rd \in BOOLEAN }

\* main.ts lines 29-30 and 246-249
CliAfterGenerate(n, ready) == [sync |-> ready, outcome |-> "success"]

\* server.ts lines 78-94 and main.ts lines 246-249
ExpressAfterGenerate(n, ready) ==
    IF n = 0 THEN [sync |-> FALSE, outcome |-> "failure"]
    ELSE [sync |-> ready, outcome |-> "success"]

\* the app server, lines 117-121, and shopware-helper.ts lines 146-151
HonoAfterGenerate(n, ready) == [sync |-> ready, outcome |-> "success"]

\* No generateProducts call is running
Idle ==
    /\ productCount = 0
    /\ generateImages = FALSE
    /\ pc = "idle"
    /\ briefs = [kind |-> "pending", n |-> 0, ctx |-> NoCtx]
    /\ calls = <<>>
    /\ fallback = FALSE
    /\ i = 0
    /\ products = <<>>
    /\ imgTasks = <<>>
    /\ wlog = <<>>
    /\ cache = [k \in Keys |-> NoFile]
    /\ error = "none"
    /\ additionalInformation = <<>>
    /\ enriched = NoCtx
    /\ browser = "none"
    /\ fetches = <<>>
    /\ html = NoPage

InitFn ==
    /\ Idle
    /\ NoServer
    /\ fnIn \in BriefsInputs \cup GroupsInputs \cup ProductInputs
                \cup CliInputs \cup FrontEndInputs
    /\ fnOut = NoOutput

\* generateProductBriefs settles
GenerateProductBriefsCall ==
    /\ fnIn.fn = "generateProductBriefs"
    /\ fnOut.kind = "none"
    /\ fnOut' = ReturnedBriefs(fnIn.reply)
    /\ UNCHANGED <<fnIn, pipeVars, enrichVars, srvVars>>

\* generatePropertyGroups settles, and its caller iterates the result
GeneratePropertyGroupsCall ==
    /\ fnIn.fn = "generatePropertyGroups"
    /\ fnOut.kind = "none"
    /\ LET out == GeneratePropertyGroups(fnIn.reply)
       IN  fnOut' = [kind |-> out.kind, def |-> out.def, value |-> out.value,
                     caller |-> HydrateEnvWithPropertyGroups(out)]
    /\ UNCHANGED <<fnIn, pipeVars, enrichVars, srvVars>>

\* generateProduct builds its schema and the provider answers; conforms
\* tells whether the answer is an instance of the schema
GenerateProductCall ==
    /\ fnIn.fn = "generateProduct"
    /\ fnOut.kind = "none"
    /\ LET schema == Schema(fnIn.propertyGroups, fnIn.generateReviews)
       IN  fnOut' = [kind |-> "return", schema |-> schema,
                     conforms |-> Conforms(schema, fnIn.reply)]
    /\ UNCHANGED <<fnIn, pipeVars, enrichVars, srvVars>>

\* The CLI runs up to its token request
MainCall ==
    /\ fnIn.fn = "main"
    /\ fnOut.kind = "none"
    /\ fnOut' = Main(fnIn.env)
    /\ UNCHANGED <<fnIn, pipeVars, enrichVars, srvVars>>

\* A front end goes on after generateProducts resolved
FrontEndCall ==
    /\ fnIn.fn = "frontEnd"
    /\ fnOut.kind = "none"
    /\ LET out == IF fnIn.fe = "cli" THEN CliAfterGenerate(fnIn.n, fnIn.ready)
                  ELSE IF fnIn.fe = "express" THEN ExpressAfterGenerate(fnIn.n, fnIn.ready)
                  ELSE HonoAfterGenerate(fnIn.n, fnIn.ready)
       IN  fnOut' = [kind |-> "return", sync |-> out.sync, outcome |-> out.outcome]
    /\ UNCHANGED <<fnIn, pipeVars, enrichVars, srvVars>>

NextFn ==
    \/ GenerateProductBriefsCall
    \/ GeneratePropertyGroupsCall
    \/ GenerateProductCall
    \/ MainCall
    \/ FrontEndCall

SpecFn == InitFn /\ [][NextFn]_vars

----------------------------------------------------------------------------
(* The Express server (server.ts): concurrent POST /generate requests, all  *)
(* handled with the one DataHydrator of line 12.  Every action is one turn  *)
(* of the event loop of one handler: the reply to its awaited call and the  *)
(* synchronous code up to its next await.                                   *)

Envs == { "e1", "e2" }
Reqs == { 1, 2 }

\* Tokens: request r's credentials obtain token r; 0 is null or undefined.
\* The environment that issued a token is the one request r named.
TokenEnv(t) == reqs[t].envPath

\* The store takes a request that carries a token it issued itself
Accepted(at) == at.auth # 0 /\ TokenEnv(at.auth) = at.env

\* Product lists generateProducts resolves with, by p.image being there
ProductLists == { <<>>, << TRUE, FALSE >>, << TRUE, TRUE >> }

\* The category that was there before any request, and the one the store
\* creates for the create request of handler r
OldCategory == 0
NoCategory == 3

\* main.ts lines 259-335: the media and product-media ids of product k of
\* handler r stand for the UUIDs of lines 310-311
MediaId(r, k) == << "media", r, k >>
ProductMediaId(r, k) == << "productMedia", r, k >>
NoMedia == << "none", 0, 0 >>

\* lines 309-317 without the test of p.image
MediaUploadsAll(r, ps) == [k \in 1..Len(ps) |-> MediaId(r, k)]

\* lines 257 and 309-317: mediaUploads (and the ids of mediaPayload, lines
\* 318-321): one entry per product with an image
MediaUploads(r, ps) ==
    LET HasImage(k) == ps[k]
    IN  [j \in 1..Len(SelectSeq([k \in 1..Len(ps) |-> k], HasImage)) |->
            MediaId(r, SelectSeq([k \in 1..Len(ps) |-> k], HasImage)[j])]

\* lines 259-335: productPayload; cover is coverId, media the entry of
\* product.media that coverId names
ProductPayload(r, ps, cat) ==
    [k \in 1..Len(ps) |->
        [category |-> cat,
         cover |-> IF ps[k] THEN ProductMediaId(r, k) ELSE NoMedia,
         media |-> IF ps[k]
                   THEN [id |-> ProductMediaId(r, k), mediaId |-> MediaId(r, k)]
                   ELSE [id |-> NoMedia, mediaId |-> NoMedia]]]

\* A request sent through this.apiClient as it is at that moment
Upload(kind, payload, media) ==
    [kind |-> kind, env |-> apiClient.env, auth |-> apiClient.auth,
     payload |-> payload, media |-> media]

\* A handler: envPath is the parameter of line 23; at is the client its
\* awaited request went through; ps, cat and pending are the locals
\* products, productCategory and the uploads not yet answered
Handler(e) ==
    [envPath |-> e, pc |-> "new", at |-> NoClient, ps |-> <<>>,
     cat |-> NoCategory, synced |-> FALSE, pending |-> {}]

InitServer ==
    /\ Idle
    /\ fnIn = NoInput
    /\ fnOut = NoOutput
    /\ apiClient = NoClient
    /\ apiClientAccessToken = 0
    /\ lastAuth = "none"
    /\ reqs \in { [r \in Reqs |-> Handler(f[r])] : f \in [Reqs -> Envs] }
    /\ sent = [r \in Reqs |-> <<>>]
    /\ store \in { [e \in Envs |-> c] : c \in { {}, {OldCategory} } }

Others == <<pipeVars, enrichVars, fnVars>>

\* server.ts lines 23-45 and main.ts lines 105-126: a request with envPath
\* and credentials arrives; a new client is made and the token request sent
Receive(r) ==
    /\ reqs[r].pc = "new"
    /\ apiClient' = [env |-> reqs[r].envPath, auth |-> 0]
    /\ reqs' = [reqs EXCEPT ![r].pc = "auth", ![r].at = apiClient']
    /\ UNCHANGED <<apiClientAccessToken, lastAuth, sent, store, Others>>

\* main.ts lines 120-137 and server.ts lines 47-56: the token request is
\* answered with a token ("ok"), without one ("false": the method returns
\* false), or fails ("throw": axios rejects and the method throws; nothing
\* in the handler catches it)
AuthReply(r, res) ==
    /\ reqs[r].pc = "auth"
    /\ lastAuth' = res
    /\ IF res = "ok"
       THEN /\ apiClientAccessToken' = r
            /\ apiClient' = [apiClient EXCEPT !.auth = r]
            /\ reqs' = [reqs EXCEPT ![r].pc = "groups"]
       ELSE IF res = "false"
       THEN /\ apiClientAccessToken' = 0
            /\ apiClient' = apiClient
            /\ reqs' = [reqs EXCEPT ![r].pc = "401"]
       ELSE /\ UNCHANGED <<apiClientAccessToken, apiClient>>
            /\ reqs' = [reqs EXCEPT ![r].pc = "threw"]
    /\ UNCHANGED <<sent, store, Others>>

\* server.ts lines 55-71 and main.ts lines 207-234: generatePropertyGroups
\* settles; hydrateEnvWithPropertyGroups sends the upsert, or returns []
\* without a token
GroupsReply(r, ok) ==
    /\ reqs[r].pc = "groups"
    /\ IF ~ok
       THEN /\ reqs' = [reqs EXCEPT ![r].pc = "500"]
            /\ sent' = sent
       ELSE IF apiClientAccessToken = 0
       THEN /\ reqs' = [reqs EXCEPT ![r].pc = "generate"]
            /\ sent' = sent
       ELSE /\ reqs' = [reqs EXCEPT ![r].pc = "groupsync", ![r].at = apiClient]
            /\ sent' = [sent EXCEPT ![r] = Append(@, Upload("property_group", <<>>, NoMedia))]
    /\ UNCHANGED <<apiClient, apiClientAccessToken, lastAuth, store, Others>>

\* main.ts lines 228-238 and server.ts lines 57-71
GroupSyncReply(r, ok) ==
    /\ reqs[r].pc = "groupsync"
    /\ ok => Accepted(reqs[r].at)
    /\ reqs' = [reqs EXCEPT ![r].pc = IF ok THEN "generate" ELSE "500"]
    /\ UNCHANGED <<apiClient, apiClientAccessToken, lastAuth, sent, store, Others>>

\* server.ts lines 64-84 and main.ts lines 246-251: generateProducts
\* settles (out.ok false: it rejects)
ProductsReply(r, out) ==
    /\ reqs[r].pc = "generate"
    /\ IF ~out.ok \/ Len(out.ps) = 0
       THEN reqs' = [reqs EXCEPT ![r].pc = "500"]
       ELSE IF apiClientAccessToken = 0
       THEN reqs' = [reqs EXCEPT ![r].pc = "200", ![r].ps = out.ps]
       ELSE reqs' = [reqs EXCEPT ![r].pc = "currency", ![r].ps = out.ps, ![r].at = apiClient]
    /\ UNCHANGED <<apiClient, apiClientAccessToken, lastAuth, sent, store, Others>>

\* main.ts lines 251-255 and 139-188: the currency, tax and sales channel
\* searches are answered one after the other; after the last, the category
\* search is sent
LookupReply(r, ok) ==
    /\ reqs[r].pc \in { "currency", "tax", "salesChannel" }
    /\ ok => Accepted(reqs[r].at)
    /\ reqs' = [reqs EXCEPT
                  ![r].pc = IF ~ok THEN "500"
                            ELSE IF @ = "currency" THEN "tax"
                            ELSE IF @ = "tax" THEN "salesChannel" ELSE "search",
                  ![r].at = IF ok THEN apiClient ELSE @]
    /\ UNCHANGED <<apiClient, apiClientAccessToken, lastAuth, sent, store, Others>>

\* main.ts lines 257-348: the payloads are built and the upsert is sent
SendSync(r, cat) ==
    /\ reqs' = [reqs EXCEPT ![r].pc = "sync", ![r].cat = cat, ![r].at = apiClient]
    /\ sent' = [sent EXCEPT ![r] = Append(@,
                  Upload("product", ProductPayload(r, reqs[r].ps, cat),
                         MediaUploads(r, reqs[r].ps)))]

\* main.ts lines 174-204: the category search (limit 1) is answered with
\* total and, when there is one, a category of that name; with total 1 it
\* is taken, otherwise the create request is sent
SearchReply(r, ok, total, found) ==
    /\ reqs[r].pc = "search"
    /\ ok => Accepted(reqs[r].at)
    /\ LET cats == store[reqs[r].at.env]
       IN  /\ ok => /\ total \in { Cardinality(cats) } \cup (IF cats = {} THEN {} ELSE { 1 })
                    /\ found \in cats \cup (IF cats = {} THEN { NoCategory } ELSE {})
           /\ IF ~ok
              THEN reqs' = [reqs EXCEPT ![r].pc = "500"] /\ sent' = sent
              ELSE IF total = 1 /\ found # NoCategory
              THEN SendSync(r, found)
              ELSE /\ reqs' = [reqs EXCEPT ![r].pc = "create", ![r].at = apiClient]
                   /\ sent' = sent
    /\ UNCHANGED <<apiClient, apiClientAccessToken, lastAuth, store, Others>>

\* main.ts lines 194-204 and 257-348: the store has created the category
CreateReply(r, ok) ==
    /\ reqs[r].pc = "create"
    /\ ok => Accepted(reqs[r].at)
    /\ IF ok
       THEN /\ store' = [store EXCEPT ![reqs[r].at.env] = @ \cup { r }]
            /\ SendSync(r, r)
       ELSE /\ reqs' = [reqs EXCEPT ![r].pc = "500"]
            /\ UNCHANGED <<sent, store>>
    /\ UNCHANGED <<apiClient, apiClientAccessToken, lastAuth, Others>>

\* main.ts lines 337-364: the upsert is answered; the binary uploads are
\* all sent at once
SyncReply(r, ok) ==
    /\ reqs[r].pc = "sync"
    /\ ok => Accepted(reqs[r].at)
    /\ LET ms == MediaUploads(r, reqs[r].ps)
       IN  IF ~ok
           THEN reqs' = [reqs EXCEPT ![r].pc = "500"] /\ sent' = sent
           ELSE /\ reqs' = [reqs EXCEPT ![r].pc = IF ms = <<>> THEN "200" ELSE "uploads",
                                        ![r].synced = TRUE,
                                        ![r].at = apiClient,
                                        ![r].pending = { ms[k] : k \in 1..Len(ms) }]
                /\ sent' = [sent EXCEPT ![r] =
                              @ \o [k \in 1..Len(ms) |-> Upload("upload", <<>>, ms[k])]]
    /\ UNCHANGED <<apiClient, apiClientAccessToken, lastAuth, store, Others>>

\* main.ts lines 352-366 and server.ts lines 83-94: one binary upload is
\* answered; Promise.all rejects with the first failure
UploadReply(r, m, ok) ==
    /\ reqs[r].pc = "uploads"
    /\ m \in reqs[r].pending
    /\ ok => Accepted(reqs[r].at)
    /\ reqs' = [reqs EXCEPT
                  ![r].pending = IF ok THEN @ \ { m } ELSE {},
                  ![r].pc = IF ~ok THEN "500"
                            ELSE IF reqs[r].pending = { m } THEN "200" ELSE @]
    /\ UNCHANGED <<apiClient, apiClientAccessToken, lastAuth, sent, store, Others>>

GenerateOutcomes ==
    { [ok |-> FALSE, ps |-> <<>>] } \cup { [ok |-> TRUE, ps |-> ps] : ps \in ProductLists }

NextServer ==
    \/ \E r \in Reqs : Receive(r)
    \/ \E r \in Reqs, res \in { "ok", "false", "throw" } : AuthReply(r, res)
    \/ \E r \in Reqs, ok \in BOOLEAN : GroupsReply(r, ok)
    \/ \E r \in Reqs, ok \in BOOLEAN : GroupSyncReply(r, ok)
    \/ \E r \in Reqs, out \in GenerateOutcomes : ProductsReply(r, out)
    \/ \E r \in Reqs, ok \in BOOLEAN : LookupReply(r, ok)
    \/ \E r \in Reqs, ok \in BOOLEAN, total \in 0..3,
          found \in { OldCategory, NoCategory } \cup Reqs : SearchReply(r, ok, total, found)
    \/ \E r \in Reqs, ok \in BOOLEAN : CreateReply(r, ok)
    \/ \E r \in Reqs, ok \in BOOLEAN : SyncReply(r, ok)
    \/ \E r \in Reqs, k \in 1..2, ok \in BOOLEAN : UploadReply(r, MediaId(r, k), ok)

SpecServer == InitServer /\ [][NextServer]_vars

----------------------------------------------------------------------------
(* Views of the state used by the properties *)

IsSeqCall(c) == c.brief = 0
IsAccepted(c) == c.brief = 0 /\ c.st = "product"

\* The generateProduct calls of the fallback loop, in the order issued
SeqCalls == SelectSeq(calls, IsSeqCall)

\* Names of the products the fallback calls before call k resolved with
AcceptedNamesBefore(k) == NamesOf(SelectSeq(SubSeq(calls, 1, k - 1), IsAccepted))

Settled == pc \in {"done", "rejected"}
PastFastPath == pc \in {"seq", "images", "done", "rejected"}

FastThrew ==
    \/ briefs.kind = "throw"
    \/ \E k \in FastCalls(calls) : calls[k].st = "thrown"

FastYield == Cardinality({ k \in FastCalls(calls) : calls[k].st = "product" })

Tasks == 1..Len(imgTasks)
KeyOf(k) == ImageKey(products[k])
InWlog(k) == \E p \in 1..Len(wlog) : wlog[p] = k
Pos(k) == CHOOSE p \in 1..Len(wlog) : wlog[p] = k

\* Both tasks missed the cache for one key and both obtained an image
BothMissedAndObtained(s, t) ==
    /\ s # t
    /\ KeyOf(s) = KeyOf(t)
    /\ imgTasks[s].called /\ imgTasks[t].called
    /\ InWlog(s) /\ InWlog(t)

\* The step in which generateProductImages starts its tasks
ImagesStartStep == imgTasks = <<>> /\ imgTasks' # <<>>

----------------------------------------------------------------------------
(* Properties *)

\* C1: when generateProductBriefs returned an empty sequence, a settled
\* generateProducts call has issued exactly productCount generateProduct
\* calls on the sequential path, and it returned exactly the results of the
\* successful ones.
C1_ExactlyCountAttempts ==
    (Settled /\ briefs.kind = "return" /\ briefs.n = 0) =>
        /\ Len(SeqCalls) = productCount
        /\ pc = "done"
        /\ NamesOf(products) = AcceptedNamesBefore(Len(calls) + 1)

C3_ProviderErrorNeverRejects == ~(pc = "rejected" /\ error = "ProviderError")

\* C4: the product sequence handed to the image stage and returned by
\* generateProducts never contains an absent (undefined) entry
C4_NoAbsentEntry == \A k \in 1..Len(products) : products[k].def

\* C5: the sequential fallback runs if and only if the fast path threw or
\* yielded zero products
C5_FallbackIffFastPathFailed ==
    PastFastPath => (fallback <=> (FastThrew \/ FastYield = 0))

\* C6: generateProducts returns at most productCount products, and on the
\* fast path it issues exactly productCount brief-seeded generateProduct calls
C6_AtMostCount ==
    /\ pc = "done" => Len(products) <= productCount
    /\ FastCalls(calls) # {} => Cardinality(FastCalls(calls)) = productCount

\* C7: when the cache holds a file for a product's key as its image task
\* starts, the task makes no image-provider call and attaches exactly the
\* base64 encoding of the cached file; any two tasks that hit the cache for
\* the same key carry identical image data.
C7_CacheHit ==
    /\ [][ImagesStartStep =>
            \A k \in 1..Len(products') :
                (products'[k].def /\ Exists(cache, ImageKey(products'[k]))) =>
                    /\ imgTasks'[k].st = "hit"
                    /\ ~imgTasks'[k].called
                    /\ products'[k].image =
                         Image(ImageKey(products'[k]),
                               Base64Encode(cache[ImageKey(products'[k])]))]_vars
    /\ [](\A k \in Tasks : imgTasks[k].st = "hit" =>
            /\ ~imgTasks[k].called
            /\ imgTasks[k].reply = "none"
            /\ products[k].image = Image(KeyOf(k), Base64Encode(cache[KeyOf(k)]))
            /\ \A j \in Tasks :
                   (imgTasks[j].st = "hit" /\ KeyOf(j) = KeyOf(k)) =>
                       products[j].image.data = products[k].image.data)

\* C7 witness: two products with the same key were both served from the cache
C7_Witness ==
    \E j, k \in Tasks :
        /\ j # k
        /\ KeyOf(j) = KeyOf(k)
        /\ imgTasks[j].st = "hit" /\ imgTasks[k].st = "hit"
        /\ products[k].image.has

\* C8: a cache file that exists is never overwritten, truncated or deleted
C8_WriteOnce ==
    [][\A key \in Keys : Exists(cache, key) => cache'[key] = cache[key]]_vars

\* C8 witness: a task obtained an image that differs from the file already
\* in the cache for its key, and left the file alone
C8_Witness ==
    \E k \in Tasks :
        /\ imgTasks[k].wres = "skipped"
        /\ Exists(cache, KeyOf(k))
        /\ Base64Decode(products[k].image.data) # cache[KeyOf(k)]

\* C9 (as claimed): when two concurrent tasks both missed the cache for the
\* same key and both obtained an image (and no write failed), the file holds
\* the image of the task whose write step happened last.
C9_LastWriteWins ==
    \A s, t \in Tasks :
        (/\ BothMissedAndObtained(s, t)
         /\ Pos(s) < Pos(t)
         /\ imgTasks[s].wres # "failed" /\ imgTasks[t].wres # "failed") =>
            cache[KeyOf(t)] = Base64Decode(products[t].image.data)

\* C9 (amended): when two concurrent tasks both missed the cache for the
\* same key and both obtained an image, the file holds the image of the
\* task whose write succeeded first: once a task has found or put the file
\* there, a task that reaches its write step later skips the write.
C9_FirstWriteWins ==
    \A s, t \in Tasks :
        (BothMissedAndObtained(s, t) /\ Pos(s) < Pos(t)) =>
            /\ imgTasks[s].wres # "none" /\ imgTasks[t].wres # "none"
            /\ imgTasks[s].wres \in {"written", "skipped"} => imgTasks[t].wres = "skipped"
            /\ imgTasks[s].wres = "written" =>
                   cache[KeyOf(s)] = Base64Decode(products[s].image.data)
            /\ imgTasks[t].wres = "written" =>
                   cache[KeyOf(t)] = Base64Decode(products[t].image.data)

\* C9 witness: two tasks missed the same key and obtained different images;
\* the first wrote the file and the second left it alone
C9_Witness ==
    \E s, t \in Tasks :
        /\ BothMissedAndObtained(s, t)
        /\ Pos(s) < Pos(t)
        /\ imgTasks[s].wres = "written"
        /\ imgTasks[t].wres = "skipped"
        /\ Base64Decode(products[s].image.data) # Base64Decode(products[t].image.data)
        /\ cache[KeyOf(s)] = Base64Decode(products[s].image.data)

\* C10: an image task whose provider call failed or returned no image data
\* returns normally, adds no image field to its product and writes nothing
\* to the cache: a key that was missed and that no task wrote has no file.
C10_FailedImageCall ==
    /\ [][\A k \in Tasks :
            (imgTasks[k].st = "pending" /\ imgTasks'[k].reply \in {"error", "nodata"}) =>
                /\ imgTasks'[k].st = "returned"
                /\ cache' = cache
                /\ products' = products
                /\ error' = error
                /\ pc' = "rejected" => pc = "rejected"]_vars
    /\ [](\A k \in Tasks :
            /\ imgTasks[k].reply \in {"error", "nodata"} =>
                  /\ ~products[k].image.has
                  /\ imgTasks[k].wres = "none"
                  /\ ~InWlog(k)
            /\ (/\ imgTasks[k].called
                /\ \A j \in Tasks : KeyOf(j) = KeyOf(k) => imgTasks[j].wres # "written") =>
                  ~Exists(cache, KeyOf(k)))

\* C10 witness: generateProducts resolved although one image call failed
\* and another returned no data
C10_Witness ==
    /\ pc = "done"
    /\ \E j, k \in Tasks :
        /\ imgTasks[j].reply = "error"
        /\ imgTasks[k].reply = "nodata"
        /\ ~products[j].image.has /\ ~products[k].image.has

\* C11: two image tasks resolve to the same cache file only if their
\* products have identical names and their calls the same category.
C11_SameFileOnlyIfSameName ==
    \A s, t \in Tasks : \A c, d \in Categories :
        (/\ products[s].def /\ products[t].def
         /\ ImageFsPath(c, products[s]) = ImageFsPath(d, products[t])) =>
            /\ products[s].name = products[t].name
            /\ c = d

\* C12: when a parallel fan-out ends, the product of every brief-seeded call
\* that produced one is in the product list, whatever the provider did to
\* the sibling calls, and every image obtained by a task of the image
\* fan-out is on its product, whatever the provider did to the others.
C12_SiblingWorkKept ==
    /\ [][(pc = "fast" /\ pc' # "fast") =>
            \A k \in FastCalls(calls) : calls[k].st = "product" =>
                \E j \in 1..Len(products') :
                    products'[j].def /\ products'[j].name = calls[k].name]_vars
    /\ [](\A k \in Tasks : imgTasks[k].reply = "image" => products[k].image.has)

\* Enrichment is still running: line 76 has not been assigned
Enriching == enriched = NoCtx

FetchesAllDown ==
    /\ fetches # <<>>
    /\ \A k \in 1..Len(fetches) : fetches[k].res \in {"failed", "unparsable"}
    /\ fetches[Len(fetches)].res = "unparsable" \/ Len(fetches) = 2

\* C13: enrichAdditionalInformation never throws: no step of it rejects
\* generateProducts; for a context without URL it returns the input and
\* starts no fetch; when the rendered and the static fetch both failed, or
\* the page fetched could not be parsed, it returns the input unchanged.
C13_EnrichNeverThrows ==
    /\ [][Enriching => (pc' # "rejected" /\ error' = "none")]_vars
    /\ [](~Enriching =>
            /\ ExtractFirstUrl(additionalInformation) = NoUrl =>
                  /\ enriched = Unenriched(additionalInformation)
                  /\ fetches = <<>>
                  /\ browser = "none"
            /\ FetchesAllDown => enriched = Unenriched(additionalInformation))

\* C13 witness: the rendered and the static fetch of a context with a URL
\* both threw, and enrichment returned the context as it was given
C13_Witness ==
    /\ ~Enriching
    /\ ExtractFirstUrl(additionalInformation) # NoUrl
    /\ Len(fetches) = 2
    /\ fetches[1].res = "failed" /\ fetches[2].res = "failed"
    /\ enriched = Unenriched(additionalInformation)
    /\ pc # "rejected"

\* C14: enrichment runs once and ends before any provider call is issued;
\* the brief call, every generateProduct call of the fast and of the
\* fallback path and every image call receive the value it returned; after
\* it returned, nothing fetches a page or changes that value.
C14_EnrichedOnceAndShared ==
    /\ [][~Enriching =>
            /\ enriched' = enriched
            /\ fetches' = fetches
            /\ browser' = browser]_vars
    /\ [](/\ Enriching => (briefs.ctx = NoCtx /\ calls = <<>> /\ imgTasks = <<>>)
          /\ ~Enriching =>
                /\ briefs.ctx = enriched
                /\ \A k \in 1..Len(calls) : calls[k].ctx = enriched
                /\ \A k \in Tasks : imgTasks[k].ctx = enriched)

\* C14 witness: a run with crawled content injected that issued fast-path
\* calls, fallback calls and an image call
C14_Witness ==
    /\ enriched.url \in Urls
    /\ enriched # Unenriched(additionalInformation)
    /\ \E k \in 1..Len(calls) : calls[k].brief > 0
    /\ \E k \in 1..Len(calls) : calls[k].brief = 0
    /\ \E k \in Tasks : imgTasks[k].called

\* C15: a browser that was launched is open only inside the try block of
\* fetchRenderedHtml and while its finally block runs; once
\* fetchRenderedHtml has returned or thrown, and so when enrichment
\* finishes, no browser is open.
C15_BrowserClosed ==
    browser = "open" => (Rendering \/ pc = "close")

\* C15 witness: an await inside the try block failed, the browser was
\* closed, and the static fetch was started
C15_Witness ==
    /\ pc = "static"
    /\ browser = "closed"
    /\ fetches[1].res = "failed"

Applied(fn) == fnIn.fn = fn /\ fnOut.kind # "none"

AllConform(bs) == \A k \in 1..Len(bs) : ConformsToBrief(bs[k])

\* C16: generateProductBriefs validates the reply: every brief it returns
\* conforms to the Brief schema, and a reply that is unparsable or holds a
\* non-conforming brief yields the empty sequence.
C16_BriefsValidated ==
    (Applied("generateProductBriefs") /\ fnIn.reply.kind # "error") =>
        /\ fnOut.kind = "return"
        /\ AllConform(fnOut.value)
        /\ (fnIn.reply.kind = "garbage" \/ ~AllConform(fnIn.reply.briefs)) =>
              fnOut.value = <<>>

\* C17: generatePropertyGroups always resolves to a sequence, the empty one
\* on a parse failure, a missing reply or a provider error, and the caller
\* that uploads the groups can iterate it.
C17_AlwaysSequence ==
    Applied("generatePropertyGroups") =>
        /\ fnOut.kind = "return"
        /\ fnOut.def
        /\ fnOut.caller = "uploaded"
        /\ fnIn.reply.kind \in {"error", "empty", "garbage"} => fnOut.value = <<>>

C19_SchemaCardinalities ==
    (Applied("generateProduct") /\ fnOut.conforms) =>
        /\ fnIn.propertyGroups.given => Len(fnIn.reply.options.items) >= 2
        /\ fnIn.generateReviews =>
              /\ Len(fnIn.reply.reviews.items) >= 5
              /\ \A k \in 1..Len(fnIn.reply.reviews.items) :
                    fnIn.reply.reviews.items[k] \in 1..5

\* C20: no generateProduct call has both diversification clauses in its
\* prompt: a call issued before the fallback block was entered carries a
\* brief and an empty list of prior names, a call issued inside the
\* fallback block carries no brief.
C20_NeverCombined ==
    /\ [][\A k \in (Len(calls) + 1)..Len(calls') :
            IF fallback'
            THEN calls'[k].brief = 0
            ELSE calls'[k].brief > 0 /\ calls'[k].prior = <<>>]_vars
    /\ [](\A k \in 1..Len(calls) : Cardinality(PromptClauses(calls[k])) <= 1)

\* C20 witness: one run issued a brief-seeded call and, after the fast path
\* failed, a fallback call with a non-empty list of prior names
C20_Witness ==
    \E j, k \in 1..Len(calls) :
        /\ PromptClauses(calls[j]) = {"brief"}
        /\ PromptClauses(calls[k]) = {"previous"}

\* C21: with generateImages false no generateProductImage call is made (so
\* no image-provider call and no look into the cache directory), the cache
\* is never written, no product carries an image, and generateProducts
\* resolves with the product list as the text stage left it.
C21_NoImageStage ==
    /\ [][~generateImages =>
            /\ cache' = cache
            /\ (pc # "done" /\ pc' = "done") =>
                  \A k \in 1..Len(products) : products'[k] = products[k]]_vars
    /\ [](~generateImages =>
            /\ imgTasks = <<>>
            /\ wlog = <<>>
            /\ pc # "images"
            /\ \A k \in 1..Len(products) : ~products[k].image.has)

\* C21 witness: generateProducts resolved without images although the cache
\* holds the file of one product and lacks the file of another
C21_Witness ==
    /\ ~generateImages
    /\ pc = "done"
    /\ \E j, k \in 1..Len(products) :
        /\ products[j].def /\ products[k].def
        /\ Exists(cache, ImageKey(products[j]))
        /\ ~Exists(cache, ImageKey(products[k]))

\* C22: if every awaited call eventually settles, generateProducts
\* eventually resolves or rejects, and the fallback loop never makes more
\* than productCount attempts.
C22_Terminates ==
    /\ <>Settled
    /\ [](i <= productCount /\ Len(SeqCalls) <= productCount)

\* C22 witness: after a crawl, every one of the productCount fallback
\* attempts came back without a product and generateProducts resolved
C22_Witness ==
    /\ pc = "done"
    /\ fetches # <<>>
    /\ fallback
    /\ productCount > 1
    /\ Len(SeqCalls) = productCount
    /\ \A k \in 1..Len(calls) : calls[k].st = "absent"
    /\ products = <<>>

\* The word of the context that is its first URL
IsFirstUrl(u, text) ==
    \E k \in 1..Len(text) :
        /\ text[k] = u
        /\ u \in Urls
        /\ \A j \in 1..(k - 1) : text[j] \notin Urls

\* C27: for a context with a URL, the first fetch is the rendered one; the
\* plain GET is started exactly when the rendered fetch has failed, after
\* it, and both fetch the first URL of the context; once either fetch has
\* brought a readable page, enrichment returns the context followed by the
\* crawled-content section.
C27_StaticOnlyAfterRenderedFailed ==
    /\ [][(Len(fetches') > Len(fetches) /\ fetches # <<>>) =>
            /\ fetches[Len(fetches)].kind = "rendered"
            /\ fetches[Len(fetches)].res = "pending"
            /\ fetches'[Len(fetches)].res = "failed"
            /\ fetches'[Len(fetches')].kind = "static"]_vars
    /\ [](/\ Len(fetches) <= 2
          /\ \A k \in 1..Len(fetches) :
                /\ fetches[k].kind = (IF k = 1 THEN "rendered" ELSE "static")
                /\ IsFirstUrl(fetches[k].url, additionalInformation)
          /\ (fetches # <<>> /\ fetches[1].res = "failed") => Len(fetches) = 2
          /\ (\E k \in 1..Len(fetches) : fetches[k].res = "ok") =>
                /\ enriched.base = additionalInformation
                /\ IsFirstUrl(enriched.url, additionalInformation)
                /\ \E page \in PageReplies :
                      /\ page.kind = "html"
                      /\ enriched.text = ClipText(ExtractReadableTextFromHtml(page), MaxChars))

\* C27 witness: the context holds two URLs, the rendered fetch of the first
\* failed inside the browser, the plain GET of the same URL brought a page
\* longer than the clip, and the enriched context was returned
C27_Witness ==
    /\ additionalInformation = << "u2", "txt", "u1" >>
    /\ Len(fetches) = 2
    /\ browser = "closed"
    /\ fetches[1].res = "failed" /\ fetches[2].res = "ok"
    /\ fetches[2].url = "u2"
    /\ enriched = Injected(additionalInformation, "u2", Text(MaxChars, TRUE))

\* C23: the CLI started with SW_ENV_URL, SW_CLIENT_ID and SW_CLIENT_SECRET
\* unset (and the OpenAI key set) does not abort: it requests a token from
\* http://localhost:8000 by password grant as admin/shopware.
C23_CliFallsBackToLocalDev ==
    (/\ Applied("main")
     /\ fnIn.env.OPENAI_API_KEY # ""
     /\ fnIn.env.SW_ENV_URL = ""
     /\ fnIn.env.SW_CLIENT_ID = ""
     /\ fnIn.env.SW_CLIENT_SECRET = "") =>
        /\ fnOut.kind = "authenticate"
        /\ fnOut.request = [baseURL |-> LocalDevUrl, grant_type |-> "password",
                            user |-> <<"admin", "shopware">>]

\* C26: every front end treats an empty product list as a failure: it sends
\* no product upsert and does not tell its caller of a success.
C26_EmptyResultIsFailure ==
    (Applied("frontEnd") /\ fnIn.n = 0) =>
        /\ ~fnOut.sync
        /\ fnOut.outcome # "success"

\* C28: a reply is an instance of the response schema only if it has
\* productReviews exactly when generateReviews is true and options exactly
\* when propertyGroups is not null; for an empty list of groups no option
\* id is admitted; and with propertyGroups null a reply without options is
\* an instance as soon as its reviews are as the flag asks.
C28_SchemaSelectedByFlags ==
    Applied("generateProduct") =>
        LET given == fnIn.propertyGroups.given
            reply == fnIn.reply
        IN  /\ fnOut.schema.reviews = fnIn.generateReviews
            /\ fnOut.schema.options = given
            /\ fnOut.conforms =>
                  /\ reply.reviews.has = fnIn.generateReviews
                  /\ reply.options.has = given
            /\ (given /\ fnIn.propertyGroups.groups = <<>>) =>
                  /\ fnOut.schema.enum = {}
                  /\ fnOut.conforms => reply.options.items = <<>>
            /\ (~given /\ ~reply.options.has /\ reply.reviews.has = fnIn.generateReviews) =>
                  fnOut.conforms

\* C28 witness: an empty list of groups was supplied without reviews, and
\* the reply with an empty options array is an instance of the schema
C28_Witness ==
    /\ Applied("generateProduct")
    /\ fnIn.propertyGroups = Groups(<<>>)
    /\ ~fnIn.generateReviews
    /\ fnIn.reply.options = Present(<<>>)
    /\ fnOut.conforms

\* The upload requests of handler r of one kind
SentOf(r, kind) == { k \in 1..Len(sent[r]) : sent[r][k].kind = kind }

\* C24: when all runs name the same environment, at most one category of
\* the requested name exists there, and the products of every upsert are
\* assigned to the one that exists.
C24_OneCategory ==
    \A e \in Envs :
        (\A r \in Reqs : reqs[r].envPath = e) =>
            /\ Cardinality(store[e]) <= 1
            /\ \A r \in Reqs : \A k \in SentOf(r, "product") :
                  \A j \in 1..Len(sent[r][k].payload) :
                      store[e] = { sent[r][k].payload[j].category }

\* C25: every upload request a handler sends goes to the environment its
\* request named and carries the token obtained with its request's
\* credentials.
C25_OwnEnvironmentAndToken ==
    \A r \in Reqs : \A k \in 1..Len(sent[r]) :
        /\ sent[r][k].env = reqs[r].envPath
        /\ sent[r][k].auth = r

\* C29: the stored token is non-null only if the authentication attempt
\* that ended last succeeded, and no upload request is sent while the
\* token is null.
C29_TokenOnlyAfterSuccess ==
    /\ [](apiClientAccessToken # 0 => lastAuth = "ok")
    /\ [][\A r \in Reqs :
            Len(sent'[r]) > Len(sent[r]) => apiClientAccessToken # 0]_vars

ImageCount(ps) == Cardinality({ k \in 1..Len(ps) : ps[k] })

\* C30: the upsert of a handler holds one media record per product with an
\* image and none for the others; the cover of each such product names its
\* own product-media entry, whose media id no other product has; one binary
\* upload is sent per media record, and only after the upsert was answered.
C30_OneMediaPerImage ==
    \A r \in Reqs :
        /\ Cardinality(SentOf(r, "product")) <= 1
        /\ \A k \in SentOf(r, "product") :
              LET rec == sent[r][k]
                  ps == reqs[r].ps
                  ids == { rec.media[j] : j \in 1..Len(rec.media) }
              IN  /\ Len(rec.payload) = Len(ps)
                  /\ Len(rec.media) = ImageCount(ps)
                  /\ Cardinality(ids) = ImageCount(ps)
                  /\ \A j \in 1..Len(ps) :
                        IF ps[j]
                        THEN /\ rec.payload[j].cover = rec.payload[j].media.id
                             /\ rec.payload[j].media.mediaId \in ids
                             /\ \A h \in 1..Len(ps) :
                                   h # j => rec.payload[h].media.mediaId
                                              # rec.payload[j].media.mediaId
                        ELSE rec.payload[j].cover = NoMedia
                  /\ \A u \in SentOf(r, "upload") : u > k /\ sent[r][u].media \in ids
                  /\ reqs[r].synced =>
                        \A m \in ids :
                            Cardinality({ u \in SentOf(r, "upload") : sent[r][u].media = m }) = 1
        /\ SentOf(r, "upload") # {} => reqs[r].synced

\* C30 witness: a handler answered 200 after the upsert of a product with
\* an image and one without, and the one binary upload
C30_Witness ==
    \E r \in Reqs :
        /\ reqs[r].pc = "200"
        /\ reqs[r].ps = << TRUE, FALSE >>
        /\ Cardinality(SentOf(r, "upload")) = 1
        /\ \E k \in SentOf(r, "product") : sent[r][k].payload[1].cover = ProductMediaId(r, 1)

====
